---------------------------- MODULE Spec2Model ----------------------------
(***************************************************************************)
(* Goalden (src/src/App.jsx): a savings-goal tracker.  The module models   *)
(* the derived-state computations of App/Dashboard/CalendarView (balance,  *)
(* progress, per-day aggregates, per-day filter, calendar cells) and the   *)
(* App's subscription and form handlers.                                   *)
(*                                                                         *)
(* JavaScript numbers are IEEE-754 binary64 values.  They are modelled     *)
(* exactly: a number is sgn * man * 2^exp, where man is an odd natural of  *)
(* at most Precision bits held as a sequence of bits, least significant    *)
(* first.  Every arithmetic operator computes the exact result and rounds  *)
(* it to nearest, ties to even, as the hardware does.  Infinities, NaN and *)
(* subnormals are out of the range the model's inputs can produce.         *)
(***************************************************************************)
EXTENDS Integers, Sequences, FiniteSets, TLC

\* ------------------------------------------------------------------------
\* Naturals of any size: sequences of bits, least significant bit first,
\* the most significant bit (the last element) being 1; zero is << >>.
\* ------------------------------------------------------------------------

Min(a, b) == IF a <= b THEN a ELSE b

Max(a, b) == IF a >= b THEN a ELSE b

\* The bits of an integer n >= 0 of the model's own range.
RECURSIVE NatBits(_)
NatBits(n) == IF n = 0 THEN << >> ELSE <<n % 2>> \o NatBits(n \div 2)

\* The value of at most 24 bits.
RECURSIVE ToInt(_)
ToInt(bits) == IF bits = << >> THEN 0 ELSE bits[1] + 2 * ToInt(Tail(bits))

FixedBits(n, w) == [i \in 1..w |-> (n \div 2^(i - 1)) % 2]

\* Bits 24(j-1)+1 .. 24j of m, as an integer.
Chunk(m, j) == ToInt(SubSeq(m, 24 * (j - 1) + 1, Min(24 * j, Len(m))))

NChunks(m) == (Len(m) + 23) \div 24

\* The index of the highest (lowest) 1 among m[lo..hi], 0 if there is none.
RECURSIVE HighBit(_, _, _)
HighBit(m, lo, hi) ==
    IF hi < lo THEN 0
    ELSE IF lo = hi THEN (IF m[lo] = 1 THEN lo ELSE 0)
    ELSE LET mid == (lo + hi) \div 2
             u   == HighBit(m, mid + 1, hi)
         IN  IF u # 0 THEN u ELSE HighBit(m, lo, mid)

RECURSIVE LowBit(_, _, _)
LowBit(m, lo, hi) ==
    IF hi < lo THEN 0
    ELSE IF lo = hi THEN (IF m[lo] = 1 THEN lo ELSE 0)
    ELSE LET mid == (lo + hi) \div 2
             u   == LowBit(m, lo, mid)
         IN  IF u # 0 THEN u ELSE LowBit(m, mid + 1, hi)

StripHigh(m) == SubSeq(m, 1, HighBit(m, 1, Len(m)))

\* The number of 0 bits below the lowest 1 of m # 0.
LowZeros(m) == LowBit(m, 1, Len(m)) - 1

Shl(m, k) ==
    IF m = << >> THEN << >>
    ELSE [i \in 1..(Len(m) + k) |-> IF i <= k THEN 0 ELSE m[i - k]]

RECURSIVE NatAddC(_, _, _, _, _)
NatAddC(a, b, j, n, c) ==
    IF j > n THEN (IF c = 1 THEN <<1>> ELSE << >>)
    ELSE LET s == Chunk(a, j) + Chunk(b, j) + c
         IN  FixedBits(s % 2^24, 24) \o NatAddC(a, b, j + 1, n, s \div 2^24)

NatAdd(a, b) == StripHigh(NatAddC(a, b, 1, Max(NChunks(a), NChunks(b)), 0))

\* a - b for a >= b.
RECURSIVE NatSubB(_, _, _, _, _)
NatSubB(a, b, j, n, br) ==
    IF j > n THEN << >>
    ELSE LET s == Chunk(a, j) - Chunk(b, j) - br
         IN  FixedBits(IF s < 0 THEN s + 2^24 ELSE s, 24)
                 \o NatSubB(a, b, j + 1, n, IF s < 0 THEN 1 ELSE 0)

NatSub(a, b) == StripHigh(NatSubB(a, b, 1, NChunks(a), 0))

RECURSIVE NatCmpFrom(_, _, _)
NatCmpFrom(a, b, j) ==
    IF j = 0 THEN 0
    ELSE IF Chunk(a, j) # Chunk(b, j)
         THEN (IF Chunk(a, j) > Chunk(b, j) THEN 1 ELSE -1)
    ELSE NatCmpFrom(a, b, j - 1)

\* -1, 0 or 1 as a < b, a = b, a > b.
NatCmp(a, b) ==
    IF Len(a) # Len(b) THEN (IF Len(a) > Len(b) THEN 1 ELSE -1)
    ELSE NatCmpFrom(a, b, NChunks(a))

\* a times the bits lo..hi of b (shift and add).
RECURSIVE NatMulRange(_, _, _, _)
NatMulRange(a, b, lo, hi) ==
    IF lo = hi THEN (IF b[lo] = 1 THEN Shl(a, lo - 1) ELSE << >>)
    ELSE LET mid == (lo + hi) \div 2
         IN  NatAdd(NatMulRange(a, b, lo, mid), NatMulRange(a, b, mid + 1, hi))

NatMul(a, b) ==
    IF a = << >> \/ b = << >> THEN << >> ELSE NatMulRange(a, b, 1, Len(b))

\* Long division, from the most significant bit of n down: one bit of the
\* quotient per step, s = [q, r] the quotient and the remainder so far.
NatDivStep(n, d, i, s) ==
    LET r2 == IF s.r = << >> /\ n[i] = 0 THEN << >> ELSE <<n[i]>> \o s.r
        ge == NatCmp(r2, d) >= 0
    IN  [q |-> <<IF ge THEN 1 ELSE 0>> \o s.q,
         r |-> IF ge THEN NatSub(r2, d) ELSE r2]

\* The steps for the bits hi down to lo of n.
RECURSIVE NatDivLoop(_, _, _, _, _)
NatDivLoop(n, d, hi, lo, s) ==
    IF hi = lo THEN NatDivStep(n, d, hi, s)
    ELSE LET mid  == (hi + lo) \div 2
             half == NatDivLoop(n, d, hi, mid + 1, s)
         IN  IF Len(half.q) > 0 THEN NatDivLoop(n, d, mid, lo, half) ELSE half

\* Quotient and remainder of n by d (n # 0, d # 0).
NatDivMod(n, d) ==
    LET s == NatDivLoop(n, d, Len(n), 1, [q |-> << >>, r |-> << >>])
    IN  [q |-> StripHigh(s.q), r |-> s.r]

\* ------------------------------------------------------------------------
\* JavaScript numbers (binary64).
\* ------------------------------------------------------------------------

\* Bits of a binary64 significand.
Precision == 53

Zero == [sgn |-> 1, man |-> << >>, exp |-> 0]

IsZero(x) == x.man = << >>

\* The number sgn * m * 2^e for a natural m that needs no rounding.
Canon(sgn, m, e) ==
    IF m = << >> THEN Zero
    ELSE LET z == LowZeros(m)
         IN  [sgn |-> sgn, man |-> SubSeq(m, z + 1, Len(m)), exp |-> e + z]

\* sgn * (m + f) * 2^e rounded to nearest, ties to even, where 0 <= f < 1
\* and sticky says whether f # 0.
RoundNum(sgn, m0, e, sticky) ==
    LET m == StripHigh(m0)
        n == Len(m)
    IN  IF n <= Precision THEN Canon(sgn, m, e)
        ELSE LET drop  == n - Precision
                 kept  == SubSeq(m, drop + 1, n)
                 guard == m[drop]
                 st    == sticky \/ \E i \in 1..(drop - 1) : m[i] = 1
                 up    == guard = 1 /\ (st \/ kept[1] = 1)
             IN  Canon(sgn, IF up THEN NatAdd(kept, <<1>>) ELSE kept, e + drop)

\* An integer of the model's own range as a number (exact).
FromInt(n) == Canon(IF n < 0 THEN -1 ELSE 1, NatBits(IF n < 0 THEN -n ELSE n), 0)

Pow2(k) == [sgn |-> 1, man |-> <<1>>, exp |-> k]

Neg(x) == IF IsZero(x) THEN x ELSE [x EXCEPT !.sgn = -x.sgn]

\* The exact sum of two dyadic values, not rounded.
ExactAdd(a, b) ==
    IF IsZero(a) THEN b
    ELSE IF IsZero(b) THEN a
    ELSE LET e == Min(a.exp, b.exp)
             A == Shl(a.man, a.exp - e)
             B == Shl(b.man, b.exp - e)
             c == NatCmp(A, B)
         IN  IF a.sgn = b.sgn THEN Canon(a.sgn, NatAdd(A, B), e)
             ELSE IF c = 0 THEN Zero
             ELSE IF c > 0 THEN Canon(a.sgn, NatSub(A, B), e)
             ELSE Canon(b.sgn, NatSub(B, A), e)

\* The exact product of two dyadic values, not rounded.
ExactMul(a, b) ==
    IF IsZero(a) \/ IsZero(b) THEN Zero
    ELSE Canon(a.sgn * b.sgn, NatMul(a.man, b.man), a.exp + b.exp)

Rounded(x) == RoundNum(x.sgn, x.man, x.exp, FALSE)

\* a + b, a * b and a / b of JavaScript (b # 0 in a / b).
NumAdd(a, b) == Rounded(ExactAdd(a, b))

NumMul(a, b) == Rounded(ExactMul(a, b))

NumDiv(a, b) ==
    IF IsZero(a) THEN Zero
    ELSE LET k  == Max(0, Precision + 2 + Len(b.man) - Len(a.man))
             dm == NatDivMod(Shl(a.man, k), b.man)
         IN  RoundNum(a.sgn * b.sgn, dm.q, a.exp - b.exp - k, dm.r # << >>)

\* -1, 0 or 1 as a < b, a = b, a > b (exact: the values are dyadic).
NumSign(x) == IF IsZero(x) THEN 0 ELSE x.sgn

MagCmp(a, b) ==
    LET ta == a.exp + Len(a.man)
        tb == b.exp + Len(b.man)
        e  == Min(a.exp, b.exp)
    IN  IF ta # tb THEN (IF ta > tb THEN 1 ELSE -1)
        ELSE NatCmp(Shl(a.man, a.exp - e), Shl(b.man, b.exp - e))

NumCmp(a, b) ==
    IF NumSign(a) # NumSign(b) THEN (IF NumSign(a) > NumSign(b) THEN 1 ELSE -1)
    ELSE IF NumSign(a) = 0 THEN 0
    ELSE NumSign(a) * MagCmp(a, b)

NumLt(a, b) == NumCmp(a, b) < 0

NumLe(a, b) == NumCmp(a, b) <= 0

\* Math.max and Math.min.
MathMax(a, b) == IF NumLt(a, b) THEN b ELSE a

MathMin(a, b) == IF NumLt(b, a) THEN b ELSE a

\* ------------------------------------------------------------------------
\* Dates.  A Date object is an instant, in seconds since the epoch (every
\* Date the code builds is a whole second); tz is the viewer's offset from
\* UTC in seconds, east positive.  A calendar date is <<year, month, day>>
\* with month 1..12.
\* ------------------------------------------------------------------------

DaySeconds == 24 * 3600

\* Days since 1970-01-01 of the proleptic Gregorian date y-m-d.
DaysFromCivil(y, m, d) ==
    LET yy  == IF m <= 2 THEN y - 1 ELSE y
        era == yy \div 400
        yoe == yy - era * 400
        doy == (153 * (IF m > 2 THEN m - 3 ELSE m + 9) + 2) \div 5 + d - 1
        doe == yoe * 365 + yoe \div 4 - yoe \div 100 + doy
    IN  era * 146097 + doe - 719468

\* The Gregorian date of day z since 1970-01-01.
CivilFromDays(z) ==
    LET zz  == z + 719468
        era == zz \div 146097
        doe == zz - era * 146097
        yoe == (doe - doe \div 1460 + doe \div 36524 - doe \div 146096) \div 365
        doy == doe - (365 * yoe + yoe \div 4 - yoe \div 100)
        mp  == (5 * doy + 2) \div 153
        d   == doy - (153 * mp + 2) \div 5 + 1
        m   == IF mp < 10 THEN mp + 3 ELSE mp - 9
    IN  <<IF m <= 2 THEN yoe + era * 400 + 1 ELSE yoe + era * 400, m, d>>

\* date.toISOString().split('T')[0]: the UTC calendar date of the instant
\* (the string "YYYY-MM-DD" and the triple determine each other).
ISODateKey(instant) == CivilFromDays(instant \div DaySeconds)

\* The calendar date of the instant on the viewer's clock.
LocalDate(instant, zone) == CivilFromDays((instant + zone) \div DaySeconds)

\* new Date(year, monthIndex, day) with monthIndex 0-based: local midnight
\* of that day; a monthIndex outside 0..11 and a day outside the month
\* carry over.
NewDate(year, monthIndex, day, zone) ==
    (DaysFromCivil(year + monthIndex \div 12, (monthIndex % 12) + 1, 1) + day - 1)
        * DaySeconds - zone

GetFullYear(date, zone) == LocalDate(date, zone)[1]

\* 0-based, as Date.prototype.getMonth.
GetMonth(date, zone) == LocalDate(date, zone)[2] - 1

GetDate(date, zone) == LocalDate(date, zone)[3]

\* The weekday of the instant's UTC date, as Date.prototype.getUTCDay.
GetUTCDay(date, zone) == ((date \div DaySeconds) + 4) % 7

\* 0 = Sunday; 1970-01-01 was a Thursday.
GetDay(date, zone) == (((date + zone) \div DaySeconds) + 4) % 7

\* ------------------------------------------------------------------------
\* Documents.
\* ------------------------------------------------------------------------

\* null: t.date while the server timestamp is pending, the goal when the
\* document does not exist, userId before sign-in.
Null == [null |-> TRUE]

\* A field a document lacks.
Undefined == [undefined |-> TRUE]

Timestamp(s) == [seconds |-> s]

Tx(id, amount, date, description) ==
    [id |-> id, amount |-> amount, date |-> date, description |-> description,
     type |-> IF NumLt(Zero, amount) THEN "income" ELSE "expense"]

Goal(name, targetAmount) ==
    [id |-> "main", name |-> name, targetAmount |-> targetAmount]

\* JavaScript truthiness of a number-valued field.
Falsy(v) == v = Undefined \/ IsZero(v)

Range(f) == {f[i] : i \in DOMAIN f}

\* The query orderBy('date', 'desc'): latest first; a pending server
\* timestamp sorts as later than every written one.
Later(a, b) ==
    IF a.date = Null THEN b.date # Null
    ELSE b.date # Null /\ a.date.seconds > b.date.seconds

First(docs) == CHOOSE t \in docs : \A u \in docs : ~Later(u, t)

RECURSIVE QueryOrder(_)
QueryOrder(docs) ==
    IF docs = {} THEN << >>
    ELSE <<First(docs)>> \o QueryOrder(docs \ {First(docs)})

\* ------------------------------------------------------------------------
\* State.
\* ------------------------------------------------------------------------

VARIABLES
    authStep,       \* where the auth effect and its callbacks stand
    isAuthReady,    \* App: useState(false)
    db,             \* App: useState(null); TRUE once the Firestore instance is set
    userId,         \* App: useState(null)
    effectDeps,     \* [isAuthReady, db, userId] at the last run of the data effect
    loading,        \* App: useState(true)
    goal,           \* App: useState(null), the held goal
    transactions,   \* App: useState([]), the held transaction list
    goalListener,   \* the goal onSnapshot listener: off, pending, live or failed
    txListener,     \* the transactions onSnapshot listener, likewise
    store,          \* the documents under the listened user's path
    lastGoalSnap,   \* the goal snapshot delivered last (history)
    lastTxSnap,     \* the transaction snapshot delivered last (history)
    tz,             \* the viewer's offset from UTC, seconds east
    currentDate,    \* CalendarView: useState(new Date())
    selectedDate,   \* Dashboard: useState(null)
    isDetailModalOpen,    \* Dashboard: useState(false)
    showTransactionForm,  \* Dashboard: useState(false)
    txForm,         \* TransactionForm: type, amount and description
    transactionToEdit,    \* Dashboard: useState(null)
    txEditor,       \* TransactionEditorModal: type, amount and description
    lastCall,       \* the store call issued last (history)
    calls,          \* the number of store calls issued (history)
    goalSetter,     \* GoalSetter: name, targetAmount and isSubmitting
    isGoalEditorOpen,     \* Dashboard: useState(false)
    goalEditor,     \* GoalEditorModal: name and targetAmount
    subscriptions   \* the listener pairs subscribed and not unsubscribed (history)

authVars == <<authStep, isAuthReady, db, userId, effectDeps>>

dataVars == <<loading, goal, transactions>>

subVars == <<goalListener, txListener, subscriptions>>

histVars == <<lastGoalSnap, lastTxSnap>>

viewVars == <<tz, currentDate, selectedDate, isDetailModalOpen>>

formVars ==
    <<showTransactionForm, txForm, transactionToEdit, txEditor, lastCall, calls>>

goalVars == <<goalSetter, isGoalEditorOpen, goalEditor>>

vars == <<authStep, isAuthReady, db, userId, effectDeps, loading, goal,
          transactions, goalListener, txListener, store, lastGoalSnap,
          lastTxSnap, tz, currentDate, selectedDate, isDetailModalOpen,
          showTransactionForm, txForm, transactionToEdit, txEditor, lastCall,
          calls, goalSetter, isGoalEditorOpen, goalEditor, subscriptions>>

\* The instant of hour h (UTC) of a calendar day, in seconds.
At(y, m, d, h) == DaysFromCivil(y, m, d) * DaySeconds + h * 3600

\* new Date() when the calendar is first shown.
Now == At(2024, 5, 15, 12)

\* The value of an amount state: the text of the number input (a
\* sequence of characters) or a number.
Text(chars) == [text |-> chars]

Number(n) == [number |-> n]

IsText(v) == "text" \in DOMAIN v

BlankForm == [type |-> "income", amount |-> Text(<< >>), description |-> ""]

\* The state of a GoalSetter just mounted; onSetGoalCalls counts the calls
\* of onSetGoal by this mount (history).
BlankGoalSetter ==
    [name |-> "", targetAmount |-> Text(<< >>), isSubmitting |-> FALSE,
     onSetGoalCalls |-> 0]

\* What App renders: the spinner until auth is ready and while loading,
\* then the Dashboard if a goal is held and the GoalSetter if not.
View(ready, isLoading, heldGoal) ==
    IF ~ready \/ isLoading THEN "LoadingSpinner"
    ELSE IF heldGoal # Null THEN "Dashboard"
    ELSE "GoalSetter"

\* The render after loading and goal are set: a component that is no
\* longer rendered is unmounted, and when it is rendered again it starts
\* from its initial state.
Rendered(isLoading, heldGoal) ==
    /\ goalSetter' = IF View(isAuthReady, isLoading, heldGoal) = "GoalSetter"
                     THEN goalSetter ELSE BlankGoalSetter
    /\ IF View(isAuthReady, isLoading, heldGoal) = "Dashboard"
       THEN UNCHANGED <<currentDate, selectedDate, isDetailModalOpen,
                        showTransactionForm, txForm, transactionToEdit,
                        txEditor, isGoalEditorOpen, goalEditor>>
       ELSE /\ currentDate' = Now
            /\ selectedDate' = Null
            /\ isDetailModalOpen' = FALSE
            /\ showTransactionForm' = FALSE
            /\ txForm' = BlankForm
            /\ transactionToEdit' = Null
            /\ txEditor' = Null
            /\ isGoalEditorOpen' = FALSE
            /\ goalEditor' = Null

\* ------------------------------------------------------------------------
\* Memoized calculations of App.
\* ------------------------------------------------------------------------

\* transactions.reduce((acc, t) => acc + t.amount, 0)
RECURSIVE BalanceOf(_)
BalanceOf(T) ==
    IF T = << >> THEN Zero
    ELSE NumAdd(BalanceOf(SubSeq(T, 1, Len(T) - 1)), T[Len(T)].amount)

currentBalance == BalanceOf(transactions)

Hundred == FromInt(100)

\* A progress that leaves out the clamp.
ProgressUnclamped(balance, g) ==
    IF g = Null \/ Falsy(g.targetAmount) THEN Zero
    ELSE NumMul(NumDiv(balance, g.targetAmount), Hundred)

ProgressOf(balance, g) ==
    IF g = Null \/ Falsy(g.targetAmount) THEN Zero
    ELSE MathMax(Zero,
                 MathMin(Hundred, NumMul(NumDiv(balance, g.targetAmount), Hundred)))

progress == ProgressOf(currentBalance, goal)

\* ------------------------------------------------------------------------
\* CalendarView.dailyData, Dashboard.handleDateClick's filter and
\* TransactionDetailModal.dailyTransactions.
\* ------------------------------------------------------------------------

NoData == [k \in {} |-> Zero]

\* One step of transactions.forEach in dailyData.
DailyStep(data, t) ==
    IF t.date # Null /\ t.date.seconds # 0
    THEN LET dateKey == ISODateKey(t.date.seconds)
             cur     == IF dateKey \in DOMAIN data THEN data[dateKey]
                        ELSE [income |-> Zero, expense |-> Zero]
             new     == IF NumLt(Zero, t.amount)
                        THEN [cur EXCEPT !.income = NumAdd(@, t.amount)]
                        ELSE [cur EXCEPT !.expense = NumAdd(@, t.amount)]
         IN  [k \in DOMAIN data \cup {dateKey} |->
                 IF k = dateKey THEN new ELSE data[k]]
    ELSE data

RECURSIVE DailyDataOf(_)
DailyDataOf(T) ==
    IF T = << >> THEN NoData
    ELSE DailyStep(DailyDataOf(SubSeq(T, 1, Len(T) - 1)), T[Len(T)])

dailyData == DailyDataOf(transactions)

\* A match that compares the year and the month only.
OnDateKeyOfMonth(t, dateKey) ==
    /\ t.date # Null
    /\ SubSeq(ISODateKey(t.date.seconds), 1, 2) = SubSeq(dateKey, 1, 2)

\* t.date && new Date(t.date.seconds * 1000).toISOString().split('T')[0] === dateKey
OnDateKey(t, dateKey) == t.date # Null /\ ISODateKey(t.date.seconds) = dateKey

\* The filter of handleDateClick.
TransactionsOnDate(T, date) ==
    SelectSeq(T, LAMBDA t : OnDateKey(t, ISODateKey(date)))

\* Array.prototype.sort((a, b) => b.date.seconds - a.date.seconds): stable,
\* so an element goes after those that are not earlier than it.
SortInsert(sorted, t) ==
    LET keep == {i \in 0..Len(sorted) :
                    \A j \in 1..i : sorted[j].date.seconds >= t.date.seconds}
        at   == CHOOSE i \in keep : \A j \in keep : j <= i
    IN  SubSeq(sorted, 1, at) \o <<t>> \o SubSeq(sorted, at + 1, Len(sorted))

RECURSIVE SortBySecondsDesc(_)
SortBySecondsDesc(T) ==
    IF T = << >> THEN << >>
    ELSE SortInsert(SortBySecondsDesc(SubSeq(T, 1, Len(T) - 1)), T[Len(T)])

\* dailyTransactions of the detail modal for the Date it is given.
DailyTransactionsOf(T, date) == SortBySecondsDesc(TransactionsOnDate(T, date))

\* ------------------------------------------------------------------------
\* CalendarView: the displayed month and its day cells.
\* ------------------------------------------------------------------------

startOfMonth ==
    NewDate(GetFullYear(currentDate, tz), GetMonth(currentDate, tz), 1, tz)

endOfMonth ==
    NewDate(GetFullYear(currentDate, tz), GetMonth(currentDate, tz) + 1, 0, tz)

startDay == GetDay(startOfMonth, tz)

daysInMonth == GetDate(endOfMonth, tz)

\* The Date of the cell of `day`, and the cell's dataForDay (Undefined when
\* dailyData has no entry under the cell's key).
CellDate(day) ==
    NewDate(GetFullYear(currentDate, tz), GetMonth(currentDate, tz), day, tz)

DataForDay(day) ==
    IF ISODateKey(CellDate(day)) \in DOMAIN dailyData
    THEN dailyData[ISODateKey(CellDate(day))]
    ELSE Undefined

\* The cells pushed to calendarDays: empty ones before day 1, one cell a
\* day, and empty ones to the end of the last row.
EmptyCell == [empty |-> TRUE]

DayCell(day) == [day |-> day, date |-> CellDate(day), dataForDay |-> DataForDay(day)]

remainingCells == (7 - ((startDay + daysInMonth) % 7)) % 7

calendarDays ==
    [i \in 1..startDay |-> EmptyCell]
        \o [day \in 1..daysInMonth |-> DayCell(day)]
        \o [i \in 1..remainingCells |-> EmptyCell]

\* ------------------------------------------------------------------------
\* The document store (Firestore), as far as the App reads it: the goal
\* document goals/main (Null when it does not exist) and the documents of
\* the transactions collection.
\* ------------------------------------------------------------------------

\* The most documents the transactions collection holds.
MaxTx == 3

EmptyStore == [goal |-> Null, docs |-> {}]

\* The collections one added or deleted document away from docs.
OneDocAway(docs, universe) ==
    {docs \cup {t} : t \in {u \in universe \ docs :
                               /\ Cardinality(docs) < MaxTx
                               /\ \A v \in docs : v.id # u.id}}
        \cup {docs \ {t} : t \in docs}

\* ------------------------------------------------------------------------
\* App: the onSnapshot callbacks of the data effect.
\* ------------------------------------------------------------------------

\* Before a listener has delivered anything.
NoSnapshot == [none |-> TRUE]

\* A query snapshot with its documents in query order.
Snapshot(docs) == [docs |-> docs]

\* (docSnap) => docSnap.exists() ? setGoal({id, ...data}) : setGoal(null)
GoalCallback(docSnap) ==
    /\ goal' = IF docSnap # Null THEN docSnap ELSE Null
    /\ lastGoalSnap' = docSnap
    /\ Rendered(loading, goal')
    /\ UNCHANGED <<loading, transactions, lastTxSnap>>

\* A callback that adds the documents it has not yet got to the held
\* list instead of replacing the list.
TransactionsCallbackMerging(snapshot) ==
    /\ transactions' = transactions \o
           SelectSeq(snapshot.docs, LAMBDA t : t \notin Range(transactions))
    /\ loading' = FALSE
    /\ lastTxSnap' = snapshot
    /\ UNCHANGED <<goal, lastGoalSnap>>

\* (snapshot) => { setTransactions(snapshot.docs.map(...)); setLoading(false) }
TransactionsCallback(snapshot) ==
    /\ transactions' = snapshot.docs
    /\ loading' = FALSE
    /\ lastTxSnap' = snapshot
    /\ UNCHANGED <<goal, lastGoalSnap>>

\* An error callback that only logs.
ErrorCallbackStillLoading ==
    UNCHANGED <<loading, goal, transactions, lastGoalSnap, lastTxSnap>>

\* (error) => { console.error(...); setLoading(false) }, of either listener
ErrorCallback ==
    /\ loading' = FALSE
    /\ UNCHANGED <<goal, transactions, lastGoalSnap, lastTxSnap>>

Listening(l) == l \in {"pending", "live"}

\* The goal listener delivers: its first snapshot, or the document as it
\* is now when that differs from what it delivered last.
OnGoalSnapshot ==
    /\ Listening(goalListener)
    /\ goalListener = "pending" \/ store.goal # lastGoalSnap
    /\ GoalCallback(store.goal)
    /\ goalListener' = "live"
    /\ UNCHANGED <<authVars, txListener, subscriptions, store, tz, lastCall,
                   calls>>

OnTransactionsSnapshot ==
    /\ Listening(txListener)
    /\ txListener = "pending" \/ Snapshot(QueryOrder(store.docs)) # lastTxSnap
    /\ TransactionsCallback(Snapshot(QueryOrder(store.docs)))
    /\ txListener' = "live"
    /\ UNCHANGED <<authVars, goalListener, subscriptions, store, viewVars,
                   formVars, goalVars>>

\* A listener that fails delivers nothing more.
OnGoalError ==
    /\ Listening(goalListener)
    /\ ErrorCallback
    /\ goalListener' = "failed"
    /\ UNCHANGED <<authVars, txListener, subscriptions, store, viewVars,
                   formVars, goalVars>>

OnTransactionsError ==
    /\ Listening(txListener)
    /\ ErrorCallback
    /\ txListener' = "failed"
    /\ UNCHANGED <<authVars, goalListener, subscriptions, store, viewVars,
                   formVars, goalVars>>

\* ------------------------------------------------------------------------
\* App: Firebase initialization and authentication (the first effect).
\* authStep: start (not yet run), listening (onAuthStateChanged is
\* registered), signingIn (the callback for "no user" awaits the sign-in),
\* notified / continued (the sign-in succeeded: the callback for the new
\* user has run and the awaiting callback has not, or the other way
\* round), settled, noUser (the sign-in failed), failed (initializeApp
\* threw).
\* ------------------------------------------------------------------------

User(uid) == [uid |-> uid]

Users == {User("u1"), User("u2")}

AuthEffectOk ==
    /\ authStep = "start"
    /\ db' = TRUE
    /\ authStep' = "listening"
    /\ UNCHANGED <<isAuthReady, userId, effectDeps, dataVars, subVars, store,
                   histVars, viewVars, formVars,
                   goalVars>>

AuthEffectThrows ==
    /\ authStep = "start"
    /\ isAuthReady' = TRUE
    /\ authStep' = "failed"
    /\ UNCHANGED <<db, userId, effectDeps, dataVars, subVars, store, histVars,
                   viewVars, formVars,
                   goalVars>>

\* onAuthStateChanged reports a signed-in user: setUserId; setIsAuthReady.
AuthStateUser(u) ==
    /\ \/ authStep = "listening" /\ authStep' = "settled"
       \/ authStep = "signingIn" /\ authStep' = "notified"
       \/ authStep = "continued" /\ authStep' = "settled"
    /\ userId' = u
    /\ isAuthReady' = TRUE
    /\ UNCHANGED <<db, effectDeps, dataVars, subVars, store, histVars,
                   viewVars, formVars,
                   goalVars>>

\* onAuthStateChanged reports no user (at first, or when the session of
\* the first user is lost): the callback starts the sign-in.
AuthStateNoUser ==
    /\ authStep = "listening" \/ (authStep = "settled" /\ userId = User("u1"))
    /\ authStep' = "signingIn"
    /\ UNCHANGED <<isAuthReady, db, userId, effectDeps, dataVars, subVars,
                   store, histVars, viewVars, formVars,
                   goalVars>>

\* The sign-in fails: console.error, then setIsAuthReady(true).
SignInFails ==
    /\ authStep = "signingIn"
    /\ isAuthReady' = TRUE
    /\ authStep' = "noUser"
    /\ UNCHANGED <<db, userId, effectDeps, dataVars, subVars, store, histVars,
                   viewVars, formVars,
                   goalVars>>

\* The awaiting callback continues after a successful sign-in.
SignInContinues ==
    /\ \/ authStep = "signingIn" /\ authStep' = "continued"
       \/ authStep = "notified" /\ authStep' = "settled"
    /\ isAuthReady' = TRUE
    /\ UNCHANGED <<db, userId, effectDeps, dataVars, subVars, store, histVars,
                   viewVars, formVars,
                   goalVars>>

\* ------------------------------------------------------------------------
\* App: data fetching (the second effect, deps [isAuthReady, db, userId]).
\* ------------------------------------------------------------------------

Deps == <<isAuthReady, db, userId>>

\* The documents a user's path may hold when the App subscribes to it.
StoreContents(goals, universe) ==
    {[goal |-> g, docs |-> d] : g \in goals, d \in SUBSET universe}

\* An effect that returns no cleanup: the listeners of the previous run
\* stay subscribed.
DataEffectWithoutCleanup(contents) ==
    /\ authStep # "start"
    /\ effectDeps # Deps
    /\ effectDeps' = Deps
    /\ IF ~isAuthReady \/ ~db \/ userId = Null
       THEN /\ loading' = IF isAuthReady THEN FALSE ELSE loading
            /\ UNCHANGED <<goalListener, txListener, subscriptions, store>>
       ELSE /\ loading' = TRUE
            /\ goalListener' = "pending"
            /\ txListener' = "pending"
            /\ subscriptions' = subscriptions + 1
            /\ store' \in contents
    /\ Rendered(loading', goal)
    /\ UNCHANGED <<authStep, isAuthReady, db, userId, goal, transactions,
                   histVars, tz, lastCall, calls>>

\* The effect runs after a render in which a dep changed: the cleanup of
\* the previous run unsubscribes both listeners, then the body runs.
DataEffect(contents) ==
    /\ authStep # "start"
    /\ effectDeps # Deps
    /\ effectDeps' = Deps
    /\ IF ~isAuthReady \/ ~db \/ userId = Null
       THEN /\ loading' = IF isAuthReady THEN FALSE ELSE loading
            /\ goalListener' = "off"
            /\ txListener' = "off"
            /\ subscriptions' = 0
            /\ store' = EmptyStore
       ELSE /\ loading' = TRUE
            /\ goalListener' = "pending"
            /\ txListener' = "pending"
            /\ subscriptions' = 1
            /\ store' \in contents
    /\ Rendered(loading', goal)
    /\ UNCHANGED <<authStep, isAuthReady, db, userId, goal, transactions,
                   histVars, tz, lastCall, calls>>

\* Any client changes the listened documents: the goal document is set,
\* replaced or deleted, or one transaction document is added or deleted.
StoreChanges(goals, universe) ==
    /\ Listening(goalListener) \/ Listening(txListener)
    /\ \/ \E g \in goals \ {store.goal} : store' = [store EXCEPT !.goal = g]
       \/ \E d \in OneDocAway(store.docs, universe) :
              store' = [store EXCEPT !.docs = d]
    /\ UNCHANGED <<authVars, dataVars, subVars, histVars, viewVars, formVars,
                   goalVars>>

\* ------------------------------------------------------------------------
\* Inputs: the documents, goals and viewers the model ranges over.
\* ------------------------------------------------------------------------

TzOffsets == {-5 * 3600, 0, 9 * 3600}

Salary == Tx("t1", FromInt(50000), Timestamp(At(2024, 5, 1, 3)), "salary")

Lunch == Tx("t2", Neg(FromInt(3000)), Timestamp(At(2024, 5, 1, 9)), "lunch")

Bonus == Tx("t3", FromInt(10000), Timestamp(At(2024, 5, 3, 2)), "bonus")

Rent == Tx("t4", Neg(FromInt(2000)), Timestamp(At(2024, 4, 30, 20)), "rent")

\* A document this client has just added: its server timestamp is pending.
Pending == Tx("t5", FromInt(500), Null, "gift")

\* A document stamped with the epoch itself.
Epoch == Tx("t6", FromInt(700), Timestamp(0), "import")

Huge == Tx("t7", Pow2(53), Timestamp(At(2024, 5, 1, 23)), "sale")

Coin == Tx("t8", FromInt(1), Timestamp(At(2024, 5, 1, 1)), "coin")

Cent == Tx("t9", FromInt(1), Timestamp(At(2024, 5, 1, 2)), "cent")

CalendarDocs == {Salary, Lunch, Bonus, Rent, Pending, Epoch}

EngineDocs == CalendarDocs \cup {Huge, Coin, Cent}

EngineGoals ==
    {Null, Goal("trip", FromInt(100000)), Goal("trip", FromInt(30000)),
     Goal("trip", Zero), Goal("trip", Undefined),
     Goal("trip", Neg(FromInt(100000)))}

\* ------------------------------------------------------------------------
\* The loaded App: signed in, both listeners live, the snapshots of the
\* store's documents delivered, no form or modal open.
\* ------------------------------------------------------------------------

FormsClosed ==
    /\ showTransactionForm = FALSE
    /\ txForm = BlankForm
    /\ transactionToEdit = Null
    /\ txEditor = Null
    /\ lastCall = Null
    /\ calls = 0
    /\ goalSetter = BlankGoalSetter
    /\ isGoalEditorOpen = FALSE
    /\ goalEditor = Null

LoadedWith(documents) ==
    /\ authStep = "settled"
    /\ isAuthReady = TRUE
    /\ db = TRUE
    /\ userId = User("u1")
    /\ effectDeps = <<TRUE, TRUE, User("u1")>>
    /\ loading = FALSE
    /\ goal = documents.goal
    /\ transactions = QueryOrder(documents.docs)
    /\ goalListener = "live"
    /\ txListener = "live"
    /\ subscriptions = 1
    /\ store = documents
    /\ lastGoalSnap = documents.goal
    /\ lastTxSnap = Snapshot(QueryOrder(documents.docs))
    /\ currentDate = Now
    /\ selectedDate = Null
    /\ isDetailModalOpen = FALSE
    /\ FormsClosed

Loaded == LoadedWith(EmptyStore)

\* One transaction document is added or deleted and the listener delivers
\* the new query result.
TransactionsChange(universe) ==
    /\ txListener = "live"
    /\ \E d \in OneDocAway(store.docs, universe) :
          /\ store' = [store EXCEPT !.docs = d]
          /\ TransactionsCallback(Snapshot(QueryOrder(d)))
    /\ UNCHANGED <<authVars, subVars, viewVars, formVars, goalVars>>

\* The goal document is set, replaced or deleted and the listener delivers
\* it.
GoalChange(goals) ==
    /\ goalListener = "live"
    /\ \E g \in goals \ {store.goal} :
          /\ store' = [store EXCEPT !.goal = g]
          /\ GoalCallback(g)
    /\ UNCHANGED <<authVars, subVars, tz, lastCall, calls>>

\* ------------------------------------------------------------------------
\* Spec: the App from its first render: authentication, the data effect
\* with its two listeners, and the documents changing under them.
\* ------------------------------------------------------------------------

AppDocs == {Salary, Lunch}

AppGoals == {Null, Goal("trip", FromInt(100000))}

Init ==
    /\ authStep = "start"
    /\ isAuthReady = FALSE
    /\ db = FALSE
    /\ userId = Null
    /\ effectDeps = << >>
    /\ loading = TRUE
    /\ goal = Null
    /\ transactions = << >>
    /\ goalListener = "off"
    /\ txListener = "off"
    /\ subscriptions = 0
    /\ store = EmptyStore
    /\ lastGoalSnap = NoSnapshot
    /\ lastTxSnap = NoSnapshot
    /\ tz = 0
    /\ currentDate = Now
    /\ selectedDate = Null
    /\ isDetailModalOpen = FALSE
    /\ FormsClosed

AuthStateChanged == \E u \in Users : AuthStateUser(u)

RunDataEffect == DataEffect(StoreContents(AppGoals, AppDocs))

DocumentsChange == StoreChanges(AppGoals, AppDocs)

Next ==
    \/ AuthEffectOk
    \/ AuthEffectThrows
    \/ AuthStateChanged
    \/ AuthStateNoUser
    \/ SignInFails
    \/ SignInContinues
    \/ RunDataEffect
    \/ OnGoalSnapshot
    \/ OnTransactionsSnapshot
    \/ OnGoalError
    \/ OnTransactionsError
    \/ DocumentsChange

Spec == Init /\ [][Next]_vars

\* ------------------------------------------------------------------------
\* EngineSpec: the balance, the progress and the daily data over the
\* transaction lists and goals the listeners can deliver.
\* ------------------------------------------------------------------------

EngineInit == Loaded /\ tz = 0

EngineTransactions == TransactionsChange(EngineDocs)

EngineGoal == GoalChange(EngineGoals)

EngineNext == EngineTransactions \/ EngineGoal

EngineSpec == EngineInit /\ [][EngineNext]_vars

\* ------------------------------------------------------------------------
\* Dashboard and CalendarView: the month buttons, a click on a day cell
\* and the close button of the detail modal.
\* ------------------------------------------------------------------------

\* The most months the calendar is moved away from the month of Now.
MaxMonthOffset == 1

MonthNumber(date) == GetFullYear(date, tz) * 12 + GetMonth(date, tz)

prevMonth ==
    /\ ~isDetailModalOpen
    /\ MonthNumber(currentDate) > MonthNumber(Now) - MaxMonthOffset
    /\ currentDate' = NewDate(GetFullYear(currentDate, tz),
                              GetMonth(currentDate, tz) - 1, 1, tz)
    /\ UNCHANGED <<authVars, dataVars, subVars, store, histVars, tz,
                   selectedDate, isDetailModalOpen, formVars, goalVars>>

nextMonth ==
    /\ ~isDetailModalOpen
    /\ MonthNumber(currentDate) < MonthNumber(Now) + MaxMonthOffset
    /\ currentDate' = NewDate(GetFullYear(currentDate, tz),
                              GetMonth(currentDate, tz) + 1, 1, tz)
    /\ UNCHANGED <<authVars, dataVars, subVars, store, histVars, tz,
                   selectedDate, isDetailModalOpen, formVars, goalVars>>

\* A Date held in state.
DateValue(instant) == [time |-> instant]

\* handleDateClick(date), from the onClick of a day cell.
handleDateClick(date) ==
    /\ ~isDetailModalOpen
    /\ IF Len(TransactionsOnDate(transactions, date)) > 0
       THEN /\ selectedDate' = DateValue(date)
            /\ isDetailModalOpen' = TRUE
       ELSE UNCHANGED <<selectedDate, isDetailModalOpen>>
    /\ UNCHANGED <<authVars, dataVars, subVars, store, histVars, tz,
                   currentDate, formVars, goalVars>>

DayClick == \E day \in 1..daysInMonth : handleDateClick(CellDate(day))

\* onClose of the detail modal.
CloseDetail ==
    /\ isDetailModalOpen
    /\ isDetailModalOpen' = FALSE
    /\ UNCHANGED <<authVars, dataVars, subVars, store, histVars, tz,
                   currentDate, selectedDate, formVars, goalVars>>

\* What the open detail modal lists.
dailyTransactions == DailyTransactionsOf(transactions, selectedDate.time)

\* ------------------------------------------------------------------------
\* CalendarSpec: the calendar and the detail modal of a loaded App, for
\* viewers west of, at and east of UTC.
\* ------------------------------------------------------------------------

CalendarInit ==
    /\ LoadedWith([goal |-> Goal("trip", FromInt(100000)), docs |-> {}])
    /\ tz \in TzOffsets

CalendarTransactions == TransactionsChange(CalendarDocs)

CalendarNext ==
    CalendarTransactions \/ prevMonth \/ nextMonth \/ DayClick \/ CloseDetail

CalendarSpec == CalendarInit /\ [][CalendarNext]_vars

\* ------------------------------------------------------------------------
\* The amount inputs: parseFloat, truthiness and the browser's validation
\* of <input type="number" required min="0">.
\* ------------------------------------------------------------------------

NaN == [nan |-> TRUE]

Digits == <<"0", "1", "2", "3", "4", "5", "6", "7", "8", "9">>

IsDigit(c) == \E i \in DOMAIN Digits : Digits[i] = c

DigitValue(c) == (CHOOSE i \in DOMAIN Digits : Digits[i] = c) - 1

\* The length of the longest prefix of digits.
RECURSIVE DigitsPrefix(_)
DigitsPrefix(chars) ==
    IF chars = << >> \/ ~IsDigit(Head(chars)) THEN 0
    ELSE 1 + DigitsPrefix(Tail(chars))

\* The integer a sequence of digits writes.
RECURSIVE DigitsValue(_)
DigitsValue(chars) ==
    IF chars = << >> THEN 0
    ELSE 10 * DigitsValue(SubSeq(chars, 1, Len(chars) - 1))
             + DigitValue(chars[Len(chars)])

\* parseFloat of a text: an optional sign, digits, and an optional point
\* with digits, as far as they go; NaN when no digit is found.
ParseText(chars) ==
    LET neg  == chars # << >> /\ Head(chars) = "-"
        body == IF neg THEN Tail(chars) ELSE chars
        n    == DigitsPrefix(body)
        rest == SubSeq(body, n + 1, Len(body))
        k    == IF rest # << >> /\ Head(rest) = "." THEN DigitsPrefix(Tail(rest))
                ELSE 0
        int  == SubSeq(body, 1, n)
        frac == SubSeq(rest, 2, k + 1)
        mag  == NumDiv(FromInt(DigitsValue(int \o frac)), FromInt(10 ^ k))
    IN  IF n + k = 0 THEN NaN
        ELSE IF neg THEN Neg(mag) ELSE mag

\* parseFloat(amount): a number is converted to its text and read back.
ParseFloat(v) == IF IsText(v) THEN ParseText(v.text) ELSE v.number

\* !amount
NotAmount(v) ==
    IF IsText(v) THEN v.text = << >>
    ELSE v.number = NaN \/ IsZero(v.number)

IsInteger(x) == IsZero(x) \/ x.exp >= 0

\* The browser submits the form only if the amount input has a value
\* (required) that is at least 0 (min) and a whole number of steps of 1
\* from it, and the description input has a value (required).
InputsValid(form) ==
    /\ ParseFloat(form.amount) # NaN
    /\ NumLe(Zero, ParseFloat(form.amount))
    /\ IsInteger(ParseFloat(form.amount))
    /\ form.description # ""

\* type === 'income' ? parseFloat(amount) : -parseFloat(amount)
FinalAmount(form) ==
    IF form.type = "income" THEN ParseFloat(form.amount)
    ELSE Neg(ParseFloat(form.amount))

\* ------------------------------------------------------------------------
\* App: the transaction handlers.  A write that the store accepts shows
\* at once in the transactions listener; one that it rejects is logged
\* and changes nothing.
\* ------------------------------------------------------------------------

\* The most store calls issued in one run; at the last one the user stops
\* using the forms.
MaxCalls == 1

AutoId(n) == "auto" \o ToString(n)

\* The store accepts (ok) or rejects a write that makes its documents
\* docs; call is the record of the call.
Write(call, ok, docs) ==
    /\ lastCall' = [call EXCEPT !.ok = ok]
    /\ calls' = calls + 1
    /\ IF ok /\ docs # store.docs
       THEN /\ store' = [store EXCEPT !.docs = docs]
            /\ IF Listening(txListener)
               THEN /\ TransactionsCallback(Snapshot(QueryOrder(docs)))
                    /\ txListener' = "live"
               ELSE UNCHANGED <<dataVars, histVars, txListener>>
       ELSE UNCHANGED <<store, dataVars, histVars, txListener>>
    /\ UNCHANGED <<authVars, goalListener, subscriptions>>

\* The handler's early return (no db or no user): no call.
NoWrite ==
    UNCHANGED <<authVars, dataVars, subVars, store, histVars, lastCall, calls>>

\* addDoc(transactionsCol, { ...transaction, date: serverTimestamp() })
handleAddTransaction(transaction, ok) ==
    IF ~db \/ userId = Null THEN NoWrite
    ELSE Write([op |-> "addDoc", id |-> AutoId(calls), data |-> transaction,
                ok |-> ok],
               ok,
               store.docs \cup
                   {[id |-> AutoId(calls), amount |-> transaction.amount,
                     date |-> Null, description |-> transaction.description,
                     type |-> transaction.type]})

\* An update that also sets the date again, as addDoc does.
handleUpdateTransactionStamping(id, updatedData, ok) ==
    IF ~db \/ userId = Null THEN NoWrite
    ELSE Write([op |-> "updateDoc", id |-> id, data |-> updatedData, ok |-> ok],
               ok /\ \E t \in store.docs : t.id = id,
               {IF t.id = id
                THEN [t EXCEPT !.description = updatedData.description,
                               !.amount = updatedData.amount,
                               !.type = updatedData.type,
                               !.date = Null]
                ELSE t : t \in store.docs})

\* updateDoc(transactionRef, updatedData): the fields given replace the
\* document's; a document that does not exist is not updated.
handleUpdateTransaction(id, updatedData, ok) ==
    IF ~db \/ userId = Null THEN NoWrite
    ELSE Write([op |-> "updateDoc", id |-> id, data |-> updatedData, ok |-> ok],
               ok /\ \E t \in store.docs : t.id = id,
               {IF t.id = id
                THEN [t EXCEPT !.description = updatedData.description,
                               !.amount = updatedData.amount,
                               !.type = updatedData.type]
                ELSE t : t \in store.docs})

\* deleteDoc(transactionRef)
handleDeleteTransaction(id, ok) ==
    IF ~db \/ userId = Null THEN NoWrite
    ELSE Write([op |-> "deleteDoc", id |-> id, data |-> Null, ok |-> ok],
               ok,
               {t \in store.docs : t.id # id})

\* The server sets the pending timestamps and the listener delivers the
\* documents with their dates.
ServerTimestamps ==
    /\ txListener = "live"
    /\ \E t \in store.docs : t.date = Null
    /\ LET docs == {IF t.date = Null
                    THEN [t EXCEPT !.date = Timestamp(Now + calls)]
                    ELSE t : t \in store.docs}
       IN  /\ store' = [store EXCEPT !.docs = docs]
           /\ TransactionsCallback(Snapshot(QueryOrder(docs)))
    /\ UNCHANGED <<authVars, subVars, viewVars, formVars, goalVars>>

\* ------------------------------------------------------------------------
\* Dashboard: the transaction form, the transaction editor and the delete
\* button of the list.
\* ------------------------------------------------------------------------

AmountTexts == {<< >>, <<"0">>, <<"5", "0", "0">>, <<"-", "5">>, <<"1", ".", "5">>}

Descriptions == {"", "lunch"}

Types == {"income", "expense"}

\* The button that shows or hides the form; a form shown is a new one.
ToggleTransactionForm ==
    /\ calls < MaxCalls
    /\ View(isAuthReady, loading, goal) = "Dashboard"
    /\ ~isGoalEditorOpen
    /\ transactionToEdit = Null
    /\ ~isDetailModalOpen
    /\ showTransactionForm' = ~showTransactionForm
    /\ txForm' = BlankForm
    /\ UNCHANGED <<authVars, dataVars, subVars, store, histVars, viewVars,
                   transactionToEdit, txEditor, lastCall, calls, goalVars>>

\* setType, setAmount and setDescription of the form.
FormInput ==
    /\ calls < MaxCalls
    /\ showTransactionForm
    /\ ~isGoalEditorOpen
    /\ transactionToEdit = Null
    /\ \/ \E ty \in Types \ {txForm.type} : txForm' = [txForm EXCEPT !.type = ty]
       \/ \E a \in AmountTexts \ {txForm.amount.text} :
              txForm' = [txForm EXCEPT !.amount = Text(a)]
       \/ \E d \in Descriptions \ {txForm.description} :
              txForm' = [txForm EXCEPT !.description = d]
    /\ UNCHANGED <<authVars, dataVars, subVars, store, histVars, viewVars,
                   showTransactionForm, transactionToEdit, txEditor, lastCall,
                   calls, goalVars>>

\* The submit button of the form: TransactionForm.handleSubmit, then
\* handleAddAndClose.
SubmitTransactionForm ==
    /\ showTransactionForm
    /\ ~isGoalEditorOpen
    /\ transactionToEdit = Null
    /\ calls < MaxCalls
    /\ InputsValid(txForm)
    /\ IF NotAmount(txForm.amount) \/ txForm.description = ""
       THEN UNCHANGED vars
       ELSE /\ \E ok \in BOOLEAN :
                  handleAddTransaction(
                      [type |-> txForm.type, amount |-> FinalAmount(txForm),
                       description |-> txForm.description], ok)
            /\ showTransactionForm' = FALSE
            /\ txForm' = BlankForm
            /\ UNCHANGED <<viewVars, transactionToEdit, txEditor, goalVars>>

\* Math.abs
Abs(x) == IF IsZero(x) THEN x ELSE [x EXCEPT !.sgn = 1]

\* The initial state of TransactionEditorModal.
EditorOf(transaction) ==
    [type        |-> IF NumLt(Zero, transaction.amount) THEN "income"
                     ELSE "expense",
     amount      |-> Number(Abs(transaction.amount)),
     description |-> transaction.description]

\* The edit button of a listed transaction.
openTransactionEditor(transaction) ==
    /\ calls < MaxCalls
    /\ View(isAuthReady, loading, goal) = "Dashboard"
    /\ ~isGoalEditorOpen
    /\ transactionToEdit = Null
    /\ transactionToEdit' = transaction
    /\ isDetailModalOpen' = FALSE
    /\ txEditor' = EditorOf(transaction)
    /\ UNCHANGED <<authVars, dataVars, subVars, store, histVars, tz,
                   currentDate, selectedDate, showTransactionForm, txForm,
                   lastCall, calls, goalVars>>

EditClick == \E t \in Range(transactions) : openTransactionEditor(t)

\* setType, setAmount and setDescription of the editor.
EditorInput ==
    /\ calls < MaxCalls
    /\ transactionToEdit # Null
    /\ \/ \E ty \in Types \ {txEditor.type} :
              txEditor' = [txEditor EXCEPT !.type = ty]
       \/ \E a \in {Text(x) : x \in AmountTexts} \ {txEditor.amount} :
              txEditor' = [txEditor EXCEPT !.amount = a]
       \/ \E d \in Descriptions \ {txEditor.description} :
              txEditor' = [txEditor EXCEPT !.description = d]
    /\ UNCHANGED <<authVars, dataVars, subVars, store, histVars, viewVars,
                   showTransactionForm, txForm, transactionToEdit, lastCall,
                   calls, goalVars>>

\* The submit button of the editor: TransactionEditorModal.handleSubmit,
\* then handleUpdateAndClose and onClose.
SubmitEditor ==
    /\ transactionToEdit # Null
    /\ calls < MaxCalls
    /\ InputsValid(txEditor)
    /\ IF NotAmount(txEditor.amount) \/ txEditor.description = ""
       THEN UNCHANGED vars
       ELSE /\ \E ok \in BOOLEAN :
                  handleUpdateTransaction(
                      transactionToEdit.id,
                      [description |-> txEditor.description,
                       amount |-> FinalAmount(txEditor),
                       type |-> txEditor.type], ok)
            /\ transactionToEdit' = Null
            /\ txEditor' = Null
            /\ UNCHANGED <<viewVars, showTransactionForm, txForm, goalVars>>

\* onClose of the editor.
CloseEditor ==
    /\ transactionToEdit # Null
    /\ transactionToEdit' = Null
    /\ txEditor' = Null
    /\ UNCHANGED <<authVars, dataVars, subVars, store, histVars, viewVars,
                   showTransactionForm, txForm, lastCall, calls, goalVars>>

\* The delete button of a listed transaction.
DeleteClick ==
    /\ View(isAuthReady, loading, goal) = "Dashboard"
    /\ ~isGoalEditorOpen
    /\ transactionToEdit = Null
    /\ calls < MaxCalls
    /\ \E t \in Range(transactions) : \E ok \in BOOLEAN :
           handleDeleteTransaction(t.id, ok)
    /\ UNCHANGED <<viewVars, showTransactionForm, txForm, transactionToEdit,
                   txEditor, goalVars>>

\* ------------------------------------------------------------------------
\* App: the goal handlers.  setDoc and updateDoc change the goal document
\* when the store accepts them, and the goal listener delivers it in a
\* step of its own; a rejected write is logged and changes nothing.
\* ------------------------------------------------------------------------

\* The text is a number from its first character to its last.
IsNumeric(chars) ==
    LET body == IF chars # << >> /\ Head(chars) = "-" THEN Tail(chars) ELSE chars
        n    == DigitsPrefix(body)
        rest == SubSeq(body, n + 1, Len(body))
    IN  IF rest = << >> THEN n > 0
        ELSE /\ Head(rest) = "."
             /\ DigitsPrefix(Tail(rest)) = Len(rest) - 1
             /\ n + Len(rest) - 1 > 0

\* Number(targetAmount), and the conversion `targetAmount > 0` makes: the
\* empty text is 0, any other text its number or NaN, undefined is NaN.
ToNumber(v) ==
    IF IsText(v)
    THEN IF v.text = << >> THEN Zero
         ELSE IF IsNumeric(v.text) THEN ParseText(v.text)
         ELSE NaN
    ELSE IF v.number = Undefined THEN NaN
    ELSE v.number

\* x > 0
Positive(x) == x # NaN /\ NumLt(Zero, x)

\* The store accepts (ok) or rejects a write that makes the goal document
\* g; call is the record of the call.
WriteGoalTwice(call, ok, g) ==
    /\ lastCall' = [call EXCEPT !.ok = ok]
    /\ calls' = IF ok THEN calls + 1 ELSE calls + 2
    /\ store' = IF ok THEN [store EXCEPT !.goal = g] ELSE store
    /\ UNCHANGED <<authVars, dataVars, subVars, histVars>>

WriteGoal(call, ok, g) ==
    /\ lastCall' = [call EXCEPT !.ok = ok]
    /\ calls' = calls + 1
    /\ store' = IF ok THEN [store EXCEPT !.goal = g] ELSE store
    /\ UNCHANGED <<authVars, dataVars, subVars, histVars>>

\* setDoc(goalRef, { name, targetAmount: Number(targetAmount),
\* createdAt: serverTimestamp() })
handleSetGoal(name, targetAmount, ok) ==
    IF ~db \/ userId = Null THEN NoWrite
    ELSE WriteGoal([op |-> "setDoc", id |-> "main",
                    data |-> [name |-> name,
                              targetAmount |-> ToNumber(targetAmount),
                              createdAt |-> "serverTimestamp"],
                    ok |-> ok],
                   ok,
                   Goal(name, ToNumber(targetAmount)))

\* updateDoc(goalRef, { name, targetAmount: Number(targetAmount) }); a
\* document that does not exist is not updated.
handleUpdateGoal(name, targetAmount, ok) ==
    IF ~db \/ userId = Null THEN NoWrite
    ELSE WriteGoal([op |-> "updateDoc", id |-> "main",
                    data |-> [name |-> name,
                              targetAmount |-> ToNumber(targetAmount)],
                    ok |-> ok],
                   ok /\ store.goal # Null,
                   IF store.goal = Null THEN Null
                   ELSE [store.goal EXCEPT !.name = name,
                                           !.targetAmount = ToNumber(targetAmount)])

\* ------------------------------------------------------------------------
\* The goal forms: GoalSetter, and GoalEditorModal of the Dashboard.
\* ------------------------------------------------------------------------

GoalNames == {"", "car"}

\* The number the browser reads in a number input showing the state.
InputNumber(v) ==
    IF IsText(v) THEN ParseText(v.text)
    ELSE IF v.number = Undefined THEN NaN
    ELSE v.number

\* The browser submits a goal form only if the name input has a value
\* (required) and the amount input has one (required) that is at least 1
\* (min) and a whole number of steps of 1 from it.
GoalInputsValid(form) ==
    /\ form.name # ""
    /\ InputNumber(form.targetAmount) # NaN
    /\ NumLe(FromInt(1), InputNumber(form.targetAmount))
    /\ IsInteger(InputNumber(form.targetAmount))

\* name && targetAmount > 0
GoalEntered(form) == form.name # "" /\ Positive(ToNumber(form.targetAmount))

\* A submission that asks only for a name.
GoalAcceptedByName(form) == form.name # ""

\* A submission reaches the handler's call: the browser lets the form
\* submit and handleSubmit's condition holds.
GoalAccepted(form) == GoalInputsValid(form) /\ GoalEntered(form)

\* setName and setTargetAmount of GoalSetter; the inputs are disabled
\* while submitting.
GoalSetterInput ==
    /\ calls < MaxCalls
    /\ View(isAuthReady, loading, goal) = "GoalSetter"
    /\ ~goalSetter.isSubmitting
    /\ \/ \E n \in GoalNames \ {goalSetter.name} :
              goalSetter' = [goalSetter EXCEPT !.name = n]
       \/ \E a \in {Text(x) : x \in AmountTexts} \ {goalSetter.targetAmount} :
              goalSetter' = [goalSetter EXCEPT !.targetAmount = a]
    /\ UNCHANGED <<authVars, dataVars, subVars, store, histVars, viewVars,
                   formVars, isGoalEditorOpen, goalEditor>>

\* GoalSetter.handleSubmit through a click that leaves isSubmitting as it
\* is.
GoalSetterSubmitsAgain(ok) ==
    /\ goalSetter' = [goalSetter EXCEPT !.onSetGoalCalls = @ + 1]
    /\ handleSetGoal(goalSetter.name, goalSetter.targetAmount, ok)
    /\ UNCHANGED <<viewVars, showTransactionForm, txForm, transactionToEdit,
                   txEditor, isGoalEditorOpen, goalEditor>>

\* GoalSetter.handleSubmit once its condition holds: setIsSubmitting(true),
\* then onSetGoal(name, targetAmount).
GoalSetterSubmits(ok) ==
    /\ goalSetter' = [goalSetter EXCEPT !.isSubmitting = TRUE,
                                        !.onSetGoalCalls = @ + 1]
    /\ handleSetGoal(goalSetter.name, goalSetter.targetAmount, ok)
    /\ UNCHANGED <<viewVars, showTransactionForm, txForm, transactionToEdit,
                   txEditor, isGoalEditorOpen, goalEditor>>

\* The submit button of GoalSetter, disabled while submitting.
SubmitGoalSetter ==
    /\ calls < MaxCalls
    /\ View(isAuthReady, loading, goal) = "GoalSetter"
    /\ ~goalSetter.isSubmitting
    /\ IF GoalAccepted(goalSetter) /\ ~goalSetter.isSubmitting
       THEN \E ok \in BOOLEAN : GoalSetterSubmits(ok)
       ELSE UNCHANGED vars

\* The initial state of GoalEditorModal.
GoalEditorOf(g) == [name |-> g.name, targetAmount |-> Number(g.targetAmount)]

\* The edit button of ProgressCard: setIsGoalEditorOpen(true).
OpenGoalEditor ==
    /\ calls < MaxCalls
    /\ View(isAuthReady, loading, goal) = "Dashboard"
    /\ ~isGoalEditorOpen
    /\ transactionToEdit = Null
    /\ ~isDetailModalOpen
    /\ isGoalEditorOpen' = TRUE
    /\ goalEditor' = GoalEditorOf(goal)
    /\ UNCHANGED <<authVars, dataVars, subVars, store, histVars, viewVars,
                   formVars, goalSetter>>

\* setName and setTargetAmount of the editor.
GoalEditorInput ==
    /\ calls < MaxCalls
    /\ isGoalEditorOpen
    /\ \/ \E n \in GoalNames \ {goalEditor.name} :
              goalEditor' = [goalEditor EXCEPT !.name = n]
       \/ \E a \in {Text(x) : x \in AmountTexts} \ {goalEditor.targetAmount} :
              goalEditor' = [goalEditor EXCEPT !.targetAmount = a]
    /\ UNCHANGED <<authVars, dataVars, subVars, store, histVars, viewVars,
                   formVars, goalSetter, isGoalEditorOpen>>

\* The submit button of the editor: GoalEditorModal.handleSubmit, that is
\* onUpdateGoal(name, targetAmount), then onClose.
SubmitGoalEditor ==
    /\ calls < MaxCalls
    /\ isGoalEditorOpen
    /\ IF GoalAccepted(goalEditor)
       THEN /\ \E ok \in BOOLEAN :
                  handleUpdateGoal(goalEditor.name, goalEditor.targetAmount, ok)
            /\ isGoalEditorOpen' = FALSE
            /\ goalEditor' = Null
            /\ UNCHANGED <<viewVars, showTransactionForm, txForm,
                           transactionToEdit, txEditor, goalSetter>>
       ELSE UNCHANGED vars

\* onClose of the editor.
CloseGoalEditor ==
    /\ isGoalEditorOpen
    /\ isGoalEditorOpen' = FALSE
    /\ goalEditor' = Null
    /\ UNCHANGED <<authVars, dataVars, subVars, store, histVars, viewVars,
                   formVars, goalSetter>>

\* ------------------------------------------------------------------------
\* FormSpec: a loaded App whose user sets and edits the goal and adds,
\* edits and deletes transactions.
\* ------------------------------------------------------------------------

FormGoals == {Null, Goal("trip", FromInt(100000))}

FormInit ==
    /\ \E g \in FormGoals : LoadedWith([goal |-> g, docs |-> {Lunch}])
    /\ tz = 0

FormNext ==
    \/ ToggleTransactionForm
    \/ FormInput
    \/ SubmitTransactionForm
    \/ EditClick
    \/ EditorInput
    \/ SubmitEditor
    \/ CloseEditor
    \/ DeleteClick
    \/ ServerTimestamps
    \/ GoalSetterInput
    \/ SubmitGoalSetter
    \/ OpenGoalEditor
    \/ GoalEditorInput
    \/ SubmitGoalEditor
    \/ CloseGoalEditor
    \/ OnGoalSnapshot

FormSpec == FormInit /\ [][FormNext]_vars

\* ------------------------------------------------------------------------
\* SetterSpec: the App from its first render with a user who fills in and
\* submits the GoalSetter whenever it is shown.
\* ------------------------------------------------------------------------

SetterEffect == DataEffect(StoreContents(AppGoals, {}))

SetterNext ==
    \/ AuthEffectOk
    \/ AuthEffectThrows
    \/ AuthStateChanged
    \/ AuthStateNoUser
    \/ SignInFails
    \/ SignInContinues
    \/ SetterEffect
    \/ OnGoalSnapshot
    \/ OnTransactionsSnapshot
    \/ OnGoalError
    \/ OnTransactionsError
    \/ GoalSetterInput
    \/ SubmitGoalSetter

SetterSpec == Init /\ [][SetterNext]_vars

\* ------------------------------------------------------------------------
\* Properties of the balance and the progress.
\* ------------------------------------------------------------------------

\* The sum of the amounts in exact arithmetic.
RECURSIVE ExactSum(_)
ExactSum(T) ==
    IF T = << >> THEN Zero
    ELSE ExactAdd(ExactSum(SubSeq(T, 1, Len(T) - 1)), T[Len(T)].amount)

\* Every ordering of a list.
Orderings(T) ==
    {[i \in DOMAIN T |-> T[p[i]]] : p \in Permutations(DOMAIN T)}

\* C1: the balance is the arithmetic sum of the amounts of the held
\* transactions, every ordering of them gives the same balance, and the
\* balance of no transactions is 0.
C1_BalanceIsTheSum ==
    /\ currentBalance = ExactSum(transactions)
    /\ \A o \in Orderings(transactions) : BalanceOf(o) = currentBalance
    /\ transactions = << >> => currentBalance = Zero

\* C2: whatever the goal (absent, or with a positive, zero, negative or
\* undefined target) and the balance, the progress lies in 0..100.
C2_ProgressInRange == NumLe(Zero, progress) /\ NumLe(progress, Hundred)

\* A goal with a usable target whose unclamped percentage is beyond 100,
\* and the progress shown is 100.
C2_Clamped ==
    /\ goal # Null
    /\ ~Falsy(goal.targetAmount)
    /\ NumLt(Hundred, ProgressUnclamped(currentBalance, goal))
    /\ progress = Hundred

\* The number nearest to 100 * balance / target, the percentage itself
\* whenever that is a number.
Percentage(balance, target) == NumDiv(ExactMul(Hundred, balance), target)

\* C3: the progress is 0 when the goal is absent or its target is zero
\* or undefined, and otherwise it is balance / target * 100 clamped to
\* 0..100 (57 for a balance of 57000 and a target of 100000).
C3_ProgressIsTheClampedPercentage ==
    progress =
        IF goal = Null \/ Falsy(goal.targetAmount) THEN Zero
        ELSE MathMax(Zero, MathMin(Hundred,
                 Percentage(currentBalance, goal.targetAmount)))

\* ------------------------------------------------------------------------
\* Properties of the daily data, the date filter and the calendar cells.
\* ------------------------------------------------------------------------

Dated(T) == SelectSeq(T, LAMBDA t : t.date # Null)

\* The date keys under which the detail modal can find a transaction.
DateKeys(T) == {ISODateKey(t.date.seconds) : t \in Range(Dated(T))}

\* A Date whose date key is k.
KeyDate(k) == DaysFromCivil(k[1], k[2], k[3]) * DaySeconds

\* One entry for each place of each date's list, so that the number of
\* entries is the sum of the lists' lengths.
BucketEntries(T) ==
    UNION {{<<k, i>> : i \in 1..Len(DailyTransactionsOf(T, KeyDate(k)))} :
              k \in DateKeys(T)}

BucketsOf(T, t) ==
    {k \in DateKeys(T) : t \in Range(DailyTransactionsOf(T, KeyDate(k)))}

\* C4 as stated: the sizes of the date lists over the distinct dates of
\* the held transactions add up to the number of held transactions, and
\* each dated one is in exactly one list.
C4_ListsAddUpToAll ==
    /\ Cardinality(BucketEntries(transactions)) = Len(transactions)
    /\ \A t \in Range(Dated(transactions)) :
           Cardinality(BucketsOf(transactions, t)) = 1

\* C4, amended: the sizes of the date lists over the distinct dates of
\* the held transactions add up to the number of held transactions that
\* have a date; each dated one is in exactly one list and one without a
\* date (its server timestamp pending) is in none.
C4_ListsAddUpToDated ==
    /\ Cardinality(BucketEntries(transactions)) = Len(Dated(transactions))
    /\ \A t \in Range(transactions) :
           Cardinality(BucketsOf(transactions, t)) =
               IF t.date # Null THEN 1 ELSE 0

\* Transactions on two dates and one without a date are held.
C4_TwoDatesAndPending ==
    /\ Cardinality(DateKeys(transactions)) >= 2
    /\ Len(Dated(transactions)) < Len(transactions)

\* The income and expense of a list in exact arithmetic.
AggregateOf(T) ==
    [income  |-> ExactSum(SelectSeq(T, LAMBDA t : NumLt(Zero, t.amount))),
     expense |-> ExactSum(SelectSeq(T, LAMBDA t : NumLt(t.amount, Zero)))]

\* The dated transactions of T whose date on the viewer's clock is d.
OnLocalDate(T, d) ==
    SelectSeq(T, LAMBDA t : t.date # Null /\ LocalDate(t.date.seconds, tz) = d)

LocalDates(T) == {LocalDate(t.date.seconds, tz) : t \in Range(Dated(T))}

\* C5: the daily data map each calendar date that has a timestamped
\* transaction to the sums of the positive and of the negative amounts
\* of that date, leave out the transactions without a timestamp, and are
\* the same for every ordering of the held transactions.
C5_DailyDataAreTheSums ==
    /\ dailyData = [d \in LocalDates(transactions) |->
                       AggregateOf(OnLocalDate(transactions, d))]
    /\ \A o \in Orderings(transactions) : DailyDataOf(o) = dailyData

IsDescending(R) ==
    \A i \in 1..Len(R) : \A j \in i..Len(R) :
        R[i].date.seconds >= R[j].date.seconds

\* C6: for the date of each day cell of the displayed month, the list
\* of the date filter holds exactly the held transactions whose calendar
\* date is that day, each once, latest first, and is empty when there is
\* none.
C6_FilterIsExactAndDescending ==
    \A day \in 1..daysInMonth :
        LET R      == DailyTransactionsOf(transactions, CellDate(day))
            wanted == Range(OnLocalDate(transactions,
                                        LocalDate(CellDate(day), tz)))
        IN  /\ Range(R) = wanted
            /\ Len(R) = Cardinality(wanted)
            /\ IsDescending(R)
            /\ wanted = {} => R = << >>

\* C7: for every offset of the viewer, the cell of day D of the displayed
\* month carries the daily aggregate of exactly the held transactions
\* whose date on the viewer's clock is D, and nothing when there is none.
C7_CellsCarryTheLocalDay ==
    \A day \in 1..daysInMonth :
        LET onDay == OnLocalDate(transactions, LocalDate(CellDate(day), tz))
        IN  DataForDay(day) =
                IF onDay = << >> THEN Undefined ELSE AggregateOf(onDay)

\* ------------------------------------------------------------------------
\* Properties of the subscription.
\* ------------------------------------------------------------------------

\* C8: while both listeners of a subscription are in place, loading is
\* false only if the goal snapshot and the transaction snapshot of that
\* subscription have both arrived.
C8_LoadingEndsAfterBothSnapshots ==
    (Listening(goalListener) /\ Listening(txListener) /\ ~loading)
        => (goalListener = "live" /\ txListener = "live")

\* C9: the held transactions are the transaction snapshot delivered
\* last, whole; the held goal is the goal snapshot delivered last (null
\* when the document does not exist); the balance and the progress are
\* the ones of this pair.
C9_HeldIsTheLatestSnapshot ==
    /\ lastTxSnap # NoSnapshot =>
           /\ transactions = lastTxSnap.docs
           /\ currentBalance = BalanceOf(lastTxSnap.docs)
    /\ lastGoalSnap # NoSnapshot => goal = lastGoalSnap
    /\ (lastTxSnap # NoSnapshot /\ lastGoalSnap # NoSnapshot) =>
           progress = ProgressOf(BalanceOf(lastTxSnap.docs), lastGoalSnap)

\* Both listeners of the second user's subscription have delivered: the
\* goal and the one transaction the store holds now.
C9_SnapshotsDelivered ==
    /\ goalListener = "live"
    /\ txListener = "live"
    /\ userId = User("u2")
    /\ lastGoalSnap \notin {NoSnapshot, Null}
    /\ lastTxSnap # NoSnapshot
    /\ Len(lastTxSnap.docs) = 1
    /\ store.docs = Range(lastTxSnap.docs)

\* ------------------------------------------------------------------------
\* Properties of the forms.
\* ------------------------------------------------------------------------

\* The description is not empty and the amount entered is above 0.
ValidEntry(form) ==
    /\ form.description # ""
    /\ ParseFloat(form.amount) # NaN
    /\ NumLt(Zero, ParseFloat(form.amount))

\* C10: a submission of the transaction form issues addDoc, and one of
\* the transaction editor issues updateDoc of a transaction, only if the
\* description entered is not empty and the amount entered is strictly
\* positive.
C10_OnlyValidEntriesReachTheStore ==
    [][calls' = calls + 1 =>
          /\ lastCall'.op = "addDoc" => ValidEntry(txForm)
          /\ (lastCall'.op = "updateDoc" /\ lastCall'.id # "main") =>
                 ValidEntry(txEditor)]_vars

\* ------------------------------------------------------------------------
\* Properties of the calendar grid.
\* ------------------------------------------------------------------------

\* The weekday (0 = Sunday) of a calendar date and the number of days of
\* a month, from the calendar alone.
WeekdayOf(y, m, d) == (DaysFromCivil(y, m, d) + 4) % 7

DaysIn(y, m) ==
    DaysFromCivil(IF m = 12 THEN y + 1 ELSE y, IF m = 12 THEN 1 ELSE m + 1, 1)
        - DaysFromCivil(y, m, 1)

\* C15: the cells of the displayed month are k empty cells, then the
\* days 1..daysInMonth once each in increasing order, then fewer than 7
\* empty cells, where k is the weekday of day 1 with Sunday = 0, and the
\* number of cells is a multiple of 7.
C15_GridCoversTheMonth ==
    LET y == GetFullYear(currentDate, tz)
        m == GetMonth(currentDate, tz) + 1
        k == WeekdayOf(y, m, 1)
        n == DaysIn(y, m)
        c == calendarDays
    IN  /\ Len(c) % 7 = 0
        /\ Len(c) >= k + n
        /\ Len(c) - (k + n) < 7
        /\ \A i \in 1..Len(c) :
               IF i > k /\ i <= k + n THEN c[i] # EmptyCell /\ c[i].day = i - k
               ELSE c[i] = EmptyCell

\* May 2024, which starts on a Wednesday, is displayed to a viewer away
\* from UTC: three empty cells, then day 1.
C15_MayStartsOnWednesday ==
    /\ tz # 0
    /\ GetFullYear(currentDate, tz) = 2024
    /\ GetMonth(currentDate, tz) = 4
    /\ SubSeq(calendarDays, 1, 3) = <<EmptyCell, EmptyCell, EmptyCell>>
    /\ calendarDays[4].day = 1

\* C17: for every date, of a cell of the displayed month or of a held
\* transaction, the daily data have an entry for the date exactly if the
\* date filter finds a transaction on it, so that a click opens the
\* detail modal exactly for the dates shown with data.
C17_HighlightAgreesWithFilter ==
    \A d \in {CellDate(day) : day \in 1..daysInMonth}
                \cup {KeyDate(k) : k \in DateKeys(transactions)} :
        (ISODateKey(d) \in DOMAIN dailyData)
            <=> (Len(TransactionsOnDate(transactions, d)) > 0)

\* ------------------------------------------------------------------------
\* Properties of the goal forms and of the store calls.
\* ------------------------------------------------------------------------

\* A call on the goal document.
GoalCall(call) == call # Null /\ call.id = "main"

\* The goal form a submission comes from.
GoalForm == IF View(isAuthReady, loading, goal) = "GoalSetter" THEN goalSetter
            ELSE goalEditor

\* C11: a submission of the goal setter or of the goal editor makes a
\* setDoc or updateDoc call on the goal only with a name that is not empty
\* and a target above 0, entered and in the call's data.
C11_OnlyValidGoalsReachTheStore ==
    [][(calls' = calls + 1 /\ GoalCall(lastCall')) =>
          /\ GoalForm.name # ""
          /\ Positive(InputNumber(GoalForm.targetAmount))
          /\ lastCall'.data.name = GoalForm.name
          /\ lastCall'.data.targetAmount = InputNumber(GoalForm.targetAmount)]_vars

\* The editor has replaced the goal's name and target and the listener
\* has delivered the new goal.
C11_GoalEdited ==
    /\ GoalCall(lastCall)
    /\ lastCall.op = "updateDoc"
    /\ lastCall.ok
    /\ goal = Goal("car", FromInt(500))

\* C12: every submission makes at most one store call, and a call that
\* the store rejects leaves the store's documents, the held goal and the
\* held transactions as they were.
C12_FailedWriteChangesNothing ==
    [][/\ calls' <= calls + 1
       /\ (calls' = calls + 1 /\ ~lastCall'.ok) =>
              /\ store' = store
              /\ goal' = goal
              /\ transactions' = transactions]_vars

\* A rejected updateDoc of the goal: the one call made, the goal held as
\* it was.
C12_GoalUpdateRejected ==
    /\ GoalCall(lastCall)
    /\ lastCall.op = "updateDoc"
    /\ ~lastCall.ok
    /\ calls = 1
    /\ goal = Goal("trip", FromInt(100000))
    /\ store.goal = goal

\* The elements of what App renders that tell the user of a failure:
\* none in the spinner, in the GoalSetter or in the Dashboard.
ErrorIndications ==
    CASE View(isAuthReady, loading, goal) = "LoadingSpinner" -> {}
      [] View(isAuthReady, loading, goal) = "GoalSetter" -> {}
      [] View(isAuthReady, loading, goal) = "Dashboard" -> {}

\* C13: after a listener has failed or the store has rejected a write,
\* what App renders holds an indication of the error.
C13_FailuresAreShown ==
    (\/ goalListener = "failed"
     \/ txListener = "failed"
     \/ (lastCall # Null /\ ~lastCall.ok))
        => ErrorIndications # {}

\* A call that updates a transaction.
TransactionUpdate(call) ==
    call # Null /\ call.op = "updateDoc" /\ call.id # "main"

\* C16: an update from the transaction editor carries the description,
\* the amount and the type and nothing else, and leaves every transaction
\* document with its id and date, the others as they were.
C16_UpdateKeepsIdAndDate ==
    [][(calls' = calls + 1 /\ TransactionUpdate(lastCall')) =>
          /\ DOMAIN lastCall'.data = {"description", "amount", "type"}
          /\ {t.id : t \in store'.docs} = {t.id : t \in store.docs}
          /\ \A t \in store.docs : \E u \in store'.docs :
                 /\ u.id = t.id
                 /\ u.date = t.date
                 /\ t.id # lastCall'.id => u = t]_vars

\* The editor has changed the lunch of 3000 into one of 500: the document
\* has its id and its date and the new amount.
C16_LunchEdited ==
    /\ TransactionUpdate(lastCall)
    /\ lastCall.ok
    /\ \E t \in store.docs :
           /\ t.id = Lunch.id
           /\ t.date = Lunch.date
           /\ t.amount = Neg(FromInt(500))

\* ------------------------------------------------------------------------
\* Properties of failed reads and of the subscriptions.
\* ------------------------------------------------------------------------

\* A listener reports an error in this step.
ReadFails ==
    \/ goalListener # "failed" /\ goalListener' = "failed"
    \/ txListener # "failed" /\ txListener' = "failed"

\* C14: when a listener reports an error, the held goal and transactions
\* stay as they were, absent and empty if no snapshot has ever arrived,
\* loading ends, and the balance and the progress are defined: a progress
\* within 0..100, and balance 0 and progress 0 when no transaction is held
\* (the balance and the progress of what is held, before as after).
C14_FailedReadKeepsWhatIsHeld ==
    [][ReadFails =>
          /\ goal' = goal
          /\ transactions' = transactions
          /\ lastGoalSnap = NoSnapshot => goal' = Null
          /\ lastTxSnap = NoSnapshot => transactions' = << >>
          /\ loading' = FALSE
          /\ NumLe(Zero, progress) /\ NumLe(progress, Hundred)
          /\ transactions = << >> =>
                 currentBalance = Zero /\ progress = Zero]_vars

\* The goal listener has failed before any snapshot arrived: the App has
\* left loading with no goal and no transactions, balance 0, progress 0.
C14_NoDataYet ==
    /\ goalListener = "failed"
    /\ lastGoalSnap = NoSnapshot
    /\ lastTxSnap = NoSnapshot
    /\ ~loading
    /\ goal = Null
    /\ transactions = << >>
    /\ currentBalance = Zero
    /\ progress = Zero

\* C18: a listener is active only while auth is ready and db and userId
\* are set; at most one pair of listeners is subscribed, the pair of the
\* last run of the effect; and from a subscription on loading is true
\* until a transaction snapshot or an error has arrived.
C18_SubscriptionLifecycle ==
    /\ subscriptions <= 1
    /\ (Listening(goalListener) \/ Listening(txListener)) =>
           /\ subscriptions = 1
           /\ isAuthReady
           /\ db
           /\ userId # Null
    /\ (txListener = "pending" /\ goalListener # "failed") => loading

\* After a change of user the effect has run again: one pair subscribed,
\* for the new user, and the App loading.
C18_ResubscribedForNewUser ==
    /\ userId = User("u2")
    /\ effectDeps = <<TRUE, TRUE, User("u2")>>
    /\ lastTxSnap # NoSnapshot
    /\ subscriptions = 1
    /\ txListener = "pending"
    /\ loading

\* ------------------------------------------------------------------------
\* Properties of the GoalSetter.
\* ------------------------------------------------------------------------

\* C19: a mounted GoalSetter calls onSetGoal at most once: from the
\* submission that sets isSubmitting on, and for as long as the GoalSetter
\* stays rendered, isSubmitting stays true, the entries stay as they are,
\* onSetGoal is not called again and the goal is absent, whether the
\* store took the write, rejected it or was never called.
C19_SubmitsOncePerMount ==
    [][/\ goalSetter'.onSetGoalCalls <= 1
       /\ goalSetter'.isSubmitting <=> goalSetter'.onSetGoalCalls = 1
       /\ (goalSetter.isSubmitting
             /\ View(isAuthReady', loading', goal') = "GoalSetter") =>
              /\ goalSetter' = goalSetter
              /\ goal' = Null]_vars

\* Firebase could not be initialized, so db is missing: the submission
\* called onSetGoal, no store call was made, and the form stays disabled
\* with no goal.
C19_SubmittedWithoutStore ==
    /\ ~db
    /\ goalSetter.isSubmitting
    /\ goalSetter.onSetGoalCalls = 1
    /\ calls = 0
    /\ goal = Null
    /\ View(isAuthReady, loading, goal) = "GoalSetter"

=============================================================================
